---------------------------- MODULE Spec2Model ----------------------------
(***************************************************************************)
(* Eye Aspect Ratio (EAR) verification script, src/test_asymmetric_eyes.py *)
(*                                                                         *)
(* The script is a set of pure functions over Python floats.  A float is   *)
(* modelled as a binary floating-point number [m, e] of value m * 2^e with *)
(* a Precision-bit significand, and every arithmetic operation rounds its  *)
(* exact result to the nearest such number (ties to even), as an IEEE-754  *)
(* operation does.  Python's double has 53 significand bits; the model     *)
(* keeps the rounding behaviour with a narrower significand.  The inputs   *)
(* are bounded, so the exponent range of a double is never left (no        *)
(* overflow, no underflow, no infinity, no NaN).                           *)
(*                                                                         *)
(* Python lists are 0-based and TLA+ sequences 1-based: the element p[i]   *)
(* of the source is p[i + 1] here (see Item).                              *)
(***************************************************************************)
EXTENDS Integers, Sequences, FiniteSets, TLC

\* ------------------------------------------------------------------------
\* Bounds of the model
\* ------------------------------------------------------------------------
Precision == 13   \* significand bits of the modelled float
MaxX == 1         \* landmarks on the x axis have x in 0..MaxX
MaxY == 1         \* landmarks on the y axis have y in 1..MaxY
MaxFactor == 3    \* scale factors k are drawn from 1..MaxFactor
MaxHalves == 3    \* EAR values handed to the percentage are n/2, |n| <= MaxHalves

\* ------------------------------------------------------------------------
\* Python float arithmetic
\* ------------------------------------------------------------------------
Abs(n) == IF n < 0 THEN -n ELSE n

Sign(n) == IF n < 0 THEN -1 ELSE 1

RECURSIVE BitLen(_)
\* number of bits of the natural number a (0 for 0)
BitLen(a) == IF a = 0 THEN 0 ELSE 1 + BitLen(a \div 2)

Zero == [m |-> 0, e |-> 0]

\* The float nearest to a * 2^e for a natural number a > 0: normalised so
\* that 2^(Precision-1) <= m < 2^Precision, round half to even.
RoundNat(a, e) ==
    IF a < 2^Precision
    THEN LET k == Precision - BitLen(a)
         IN  [m |-> a * 2^k, e |-> e - k]
    ELSE LET sh   == BitLen(a) - Precision
             q    == a \div 2^sh
             r    == a % 2^sh
             half == 2^(sh - 1)
             up   == IF r > half \/ (r = half /\ q % 2 = 1) THEN q + 1 ELSE q
         IN  IF up = 2^Precision
             THEN [m |-> 2^(Precision - 1), e |-> e + sh + 1]
             ELSE [m |-> up, e |-> e + sh]

\* The float nearest to n * 2^e, n any integer.
Round(n, e) ==
    IF n = 0 THEN Zero
    ELSE LET f == RoundNat(Abs(n), e)
         IN  [m |-> Sign(n) * f.m, e |-> f.e]

\* float(n) of an integer literal
FromInt(n) == Round(n, 0)

FNeg(x) == [m |-> -x.m, e |-> x.e]

\* abs(x)
FAbs(x) == [m |-> Abs(x.m), e |-> x.e]

\* x + y.  When the exponents are more than Precision + 1 apart the smaller
\* operand is below a quarter of the last place of the larger one and the
\* sum rounds to the larger one.
FAdd(x, y) ==
    IF x.m = 0 THEN y
    ELSE IF y.m = 0 THEN x
    ELSE LET hi == IF x.e >= y.e THEN x ELSE y
             lo == IF x.e >= y.e THEN y ELSE x
             d  == hi.e - lo.e
         IN  IF d > Precision + 1 THEN hi
             ELSE Round(hi.m * 2^d + lo.m, lo.e)

\* x - y
FSub(x, y) == FAdd(x, FNeg(y))

\* x * y
FMul(x, y) == Round(x.m * y.m, x.e + y.e)

\* x / y for y # 0 (the caller raises ZeroDivisionError for y = 0).  The
\* quotient is computed to Precision + 1 bits and a sticky bit.
FDiv(x, y) ==
    IF x.m = 0 THEN Zero
    ELSE LET num == Abs(x.m) * 2^(Precision + 1)
             q   == num \div Abs(y.m)
             st  == IF num % Abs(y.m) = 0 THEN 0 ELSE 1
         IN  Round(Sign(x.m) * Sign(y.m) * (2 * q + st),
                   x.e - y.e - Precision - 2)

RECURSIVE ISqrtBetween(_, _, _)
\* the largest s in lo..hi with s * s <= n
ISqrtBetween(n, lo, hi) ==
    IF lo >= hi THEN lo
    ELSE LET mid == (lo + hi + 1) \div 2
         IN  IF mid * mid <= n
             THEN ISqrtBetween(n, mid, hi)
             ELSE ISqrtBetween(n, lo, mid - 1)

\* x ** 0.5 for x >= 0, rounded to nearest
FSqrt(x) ==
    IF x.m = 0 THEN Zero
    ELSE LET k == IF (x.e - (Precision + 1)) % 2 = 0
                  THEN Precision + 1 ELSE Precision + 2
             n == x.m * 2^k
             s == ISqrtBetween(n, 0, 2^(Precision + 1))
             st == IF s * s = n THEN 0 ELSE 1
         IN  Round(2 * s + st, ((x.e - k) \div 2) - 1)

Two == FromInt(2)

Four == FromInt(4)

Hundred == FromInt(100)

\* ------------------------------------------------------------------------
\* Results of a call: a returned float, or the exception that was raised
\* ------------------------------------------------------------------------
None == [kind |-> "None", val |-> Zero]

Return(x) == [kind |-> "value", val |-> x]

Raise(exc) == [kind |-> exc, val |-> Zero]

\* p[i] of a Python list exists (0 <= i)
HasItem(p, i) == i + 1 <= Len(p)

\* p[i] of a Python list
Item(p, i) == p[i + 1]

\* ------------------------------------------------------------------------
\* The functions of the script
\* ------------------------------------------------------------------------
\* ((p1[0] - p2[0])**2 + (p1[1] - p2[1])**2)**0.5
calculate_distance(p1, p2) ==
    LET dx == FSub(p1[1], p2[1])
        dy == FSub(p1[2], p2[2])
    IN  FSqrt(FAdd(FMul(dx, dx), FMul(dy, dy)))

\* calculate_ear with the outer vertical pair taken as p[1], p[4]
calculate_ear_wrong_pair(eye_points) ==
    LET p == eye_points
    IN  IF ~(HasItem(p, 1) /\ HasItem(p, 5)) THEN Raise("IndexError")
        ELSE LET A == calculate_distance(Item(p, 1), Item(p, 4))
                 B == calculate_distance(Item(p, 2), Item(p, 4))
                 C == calculate_distance(Item(p, 0), Item(p, 3))
                 denominator == FMul(Two, C)
             IN  IF denominator.m = 0 THEN Raise("ZeroDivisionError")
                 ELSE Return(FDiv(FAdd(A, B), denominator))

\* calculate_ear with the numerator A - B
calculate_ear_difference(eye_points) ==
    LET p == eye_points
    IN  IF ~(HasItem(p, 1) /\ HasItem(p, 5)) THEN Raise("IndexError")
        ELSE LET A == calculate_distance(Item(p, 1), Item(p, 5))
                 B == calculate_distance(Item(p, 2), Item(p, 4))
                 C == calculate_distance(Item(p, 0), Item(p, 3))
                 denominator == FMul(Two, C)
             IN  IF denominator.m = 0 THEN Raise("ZeroDivisionError")
                 ELSE Return(FDiv(FSub(A, B), denominator))

\* calculate_ear returning 0.0 for coinciding corners instead of dividing
calculate_ear_zero_guard(eye_points) ==
    LET p == eye_points
    IN  IF ~(HasItem(p, 1) /\ HasItem(p, 5)) THEN Raise("IndexError")
        ELSE LET A == calculate_distance(Item(p, 1), Item(p, 5))
                 B == calculate_distance(Item(p, 2), Item(p, 4))
                 C == calculate_distance(Item(p, 0), Item(p, 3))
                 denominator == FMul(Two, C)
             IN  IF denominator.m = 0 THEN Return(Zero)
                 ELSE Return(FDiv(FAdd(A, B), denominator))

\* calculate_ear with the denominator 2.0 + C
calculate_ear_added_denominator(eye_points) ==
    LET p == eye_points
    IN  IF ~(HasItem(p, 1) /\ HasItem(p, 5)) THEN Raise("IndexError")
        ELSE LET A == calculate_distance(Item(p, 1), Item(p, 5))
                 B == calculate_distance(Item(p, 2), Item(p, 4))
                 C == calculate_distance(Item(p, 0), Item(p, 3))
                 denominator == FAdd(Two, C)
             IN  IF denominator.m = 0 THEN Raise("ZeroDivisionError")
                 ELSE Return(FDiv(FAdd(A, B), denominator))

calculate_ear(eye_points) ==
    LET p == eye_points
    IN  IF ~(HasItem(p, 1) /\ HasItem(p, 5)) THEN Raise("IndexError")
        ELSE LET A == calculate_distance(Item(p, 1), Item(p, 5))
                 B == calculate_distance(Item(p, 2), Item(p, 4))
                 C == calculate_distance(Item(p, 0), Item(p, 3))
                 denominator == FMul(Two, C)
             IN  IF denominator.m = 0 THEN Raise("ZeroDivisionError")
                 ELSE Return(FDiv(FAdd(A, B), denominator))

\* generate_eye_points with the bottom centre at y = eye_height / 2
generate_eye_points_absolute_bottom(center_x, center_y, eye_width, eye_height) ==
    << <<FSub(center_x, FDiv(eye_width, Two)), center_y>>,
       <<FAdd(center_x, FDiv(eye_width, Two)), center_y>>,
       <<center_x, FSub(center_y, FDiv(eye_height, Two))>>,
       <<center_x, FDiv(eye_height, Two)>>,
       <<FSub(center_x, FDiv(eye_width, Four)), FSub(center_y, FDiv(eye_height, Two))>>,
       <<FAdd(center_x, FDiv(eye_width, Four)), FSub(center_y, FDiv(eye_height, Two))>> >>

generate_eye_points(center_x, center_y, eye_width, eye_height) ==
    << <<FSub(center_x, FDiv(eye_width, Two)), center_y>>,
       <<FAdd(center_x, FDiv(eye_width, Two)), center_y>>,
       <<center_x, FSub(center_y, FDiv(eye_height, Two))>>,
       <<center_x, FAdd(center_y, FDiv(eye_height, Two))>>,
       <<FSub(center_x, FDiv(eye_width, Four)), FSub(center_y, FDiv(eye_height, Two))>>,
       <<FAdd(center_x, FDiv(eye_width, Four)), FSub(center_y, FDiv(eye_height, Two))>> >>

\* calculate_percentage_difference with the numerator abs(ear1 + ear2)
calculate_percentage_difference_sum(ear1, ear2) ==
    LET mean == FDiv(FAdd(ear1, ear2), Two)
    IN  IF mean.m = 0 THEN Raise("ZeroDivisionError")
        ELSE Return(FMul(FDiv(FAbs(FAdd(ear1, ear2)), mean), Hundred))

\* calculate_percentage_difference returning 0.0 for a zero mean
calculate_percentage_difference_zero_guard(ear1, ear2) ==
    LET mean == FDiv(FAdd(ear1, ear2), Two)
    IN  IF mean.m = 0 THEN Return(Zero)
        ELSE Return(FMul(FDiv(FAbs(FSub(ear1, ear2)), mean), Hundred))

calculate_percentage_difference(ear1, ear2) ==
    LET mean == FDiv(FAdd(ear1, ear2), Two)
    IN  IF mean.m = 0 THEN Raise("ZeroDivisionError")
        ELSE Return(FMul(FDiv(FAbs(FSub(ear1, ear2)), mean), Hundred))

\* ------------------------------------------------------------------------
\* Inputs
\* ------------------------------------------------------------------------
\* the landmark points: integer points on the two axes
PointSet ==
    {<<FromInt(x), Zero>> : x \in 0..MaxX} \cup {<<Zero, FromInt(y)>> : y \in 1..MaxY}

SixLists == [1..6 -> PointSet]

\* landmark lists of 5, 6 and 7 points
InputLists ==
    SixLists \cup {SubSeq(l, 1, 5) : l \in SixLists}
             \cup {Append(l, l[1]) : l \in SixLists}

\* centres and sizes handed to generate_eye_points: the centres of the
\* script and one more row, the base size 20.0 x 10.0 and its 95%/92% and
\* 105%/108% variants
CenterXs == {FromInt(320), FromInt(380)}

CenterYs == {FromInt(240), FromInt(260)}

EyeWidths ==
    {FromInt(20), FMul(FromInt(20), FDiv(FromInt(95), Hundred)),
                  FMul(FromInt(20), FDiv(FromInt(105), Hundred))}

EyeHeights ==
    {FromInt(10), FMul(FromInt(10), FDiv(FromInt(92), Hundred)),
                  FMul(FromInt(10), FDiv(FromInt(108), Hundred))}

GenArgs ==
    [center_x : CenterXs, center_y : CenterYs,
     eye_width : EyeWidths, eye_height : EyeHeights]

NoArgs == [center_x |-> Zero, center_y |-> Zero, eye_width |-> Zero, eye_height |-> Zero]

\* EAR values handed to calculate_percentage_difference: n/2, |n| <= MaxHalves
EarValues == {FDiv(FromInt(n), Two) : n \in -MaxHalves..MaxHalves}

\* ------------------------------------------------------------------------
\* State: the call in progress, its arguments and its results
\* ------------------------------------------------------------------------
VARIABLES
    pc,           \* the next call: "generate_eye_points", "calculate_ear",
                  \* "calculate_percentage_difference", "simulate_old_behavior",
                  \* "simulate_new_behavior", or "done"
    caller,       \* "direct" for a single call, "main" for the script's run
    args,         \* the arguments of generate_eye_points
    eye_points,   \* the argument of calculate_ear
    ear,          \* the result of calculate_ear
    ear1, ear2,   \* the arguments of calculate_percentage_difference
    percentage,   \* the result of calculate_percentage_difference
    left_ear,     \* simulate_*: the result for the left eye
    right_ear     \* simulate_*: the result for the right eye

vars == <<pc, caller, args, eye_points, ear, ear1, ear2, percentage, left_ear, right_ear>>

\* a call of calculate_ear on a landmark list
InitCalculateEar ==
    /\ pc = "calculate_ear"
    /\ caller = "direct"
    /\ args = NoArgs
    /\ eye_points \in InputLists
    /\ ear1 = Zero /\ ear2 = Zero

\* a call of generate_eye_points, whose points go to calculate_ear
InitGenerateEyePoints ==
    /\ pc = "generate_eye_points"
    /\ caller = "direct"
    /\ args \in GenArgs
    /\ eye_points = <<>>
    /\ ear1 = Zero /\ ear2 = Zero

\* a call of calculate_percentage_difference
InitPercentageDifference ==
    /\ pc = "calculate_percentage_difference"
    /\ caller = "direct"
    /\ args = NoArgs
    /\ eye_points = <<>>
    /\ ear1 \in EarValues /\ ear2 \in EarValues

\* the script run as __main__
InitMain ==
    /\ pc = "simulate_old_behavior"
    /\ caller = "main"
    /\ args = NoArgs
    /\ eye_points = <<>>
    /\ ear1 = Zero /\ ear2 = Zero

Init ==
    /\ \/ InitCalculateEar
       \/ InitGenerateEyePoints
       \/ InitPercentageDifference
       \/ InitMain
    /\ ear = None
    /\ percentage = None
    /\ left_ear = None
    /\ right_ear = None

GenerateEyePoints ==
    /\ pc = "generate_eye_points"
    /\ eye_points' = generate_eye_points(args.center_x, args.center_y,
                                         args.eye_width, args.eye_height)
    /\ pc' = "calculate_ear"
    /\ UNCHANGED <<caller, args, ear, ear1, ear2, percentage, left_ear, right_ear>>

CalculateEar ==
    /\ pc = "calculate_ear"
    /\ ear' = calculate_ear(eye_points)
    /\ pc' = "done"
    /\ UNCHANGED <<caller, args, eye_points, ear1, ear2, percentage, left_ear, right_ear>>

CalculatePercentageDifference ==
    /\ pc = "calculate_percentage_difference"
    /\ percentage' = calculate_percentage_difference(ear1, ear2)
    /\ pc' = "done"
    /\ UNCHANGED <<caller, args, eye_points, ear, ear1, ear2, left_ear, right_ear>>

\* simulate_old_behavior: both eyes are generated with the base size
SimulateOldBehavior ==
    /\ pc = "simulate_old_behavior"
    /\ \E left_eye_points \in
              {generate_eye_points(FromInt(320), FromInt(240), FromInt(20), FromInt(10))},
          right_eye_points \in
              {generate_eye_points(FromInt(380), FromInt(240), FromInt(20), FromInt(10))} :
          /\ left_ear' = calculate_ear(left_eye_points)
          /\ right_ear' = calculate_ear(right_eye_points)
    /\ pc' = "simulate_new_behavior"
    /\ UNCHANGED <<caller, args, eye_points, ear, ear1, ear2, percentage>>

\* simulate_new_behavior with the left eye's size for the right eye too
SimulateNewBehavior_same_size ==
    /\ pc = "simulate_new_behavior"
    /\ \E left_eye_points \in
              {generate_eye_points(FromInt(320), FromInt(240),
                                   FMul(FromInt(20), FDiv(FromInt(95), Hundred)),
                                   FMul(FromInt(10), FDiv(FromInt(92), Hundred)))},
          right_eye_points \in
              {generate_eye_points(FromInt(380), FromInt(240),
                                   FMul(FromInt(20), FDiv(FromInt(95), Hundred)),
                                   FMul(FromInt(10), FDiv(FromInt(92), Hundred)))} :
          \E l \in {calculate_ear(left_eye_points)}, r \in {calculate_ear(right_eye_points)} :
              /\ left_ear' = l
              /\ right_ear' = r
              /\ ear1' = l.val
              /\ ear2' = r.val
              /\ percentage' = IF l.kind = "value" /\ r.kind = "value"
                               THEN calculate_percentage_difference(l.val, r.val)
                               ELSE None
    /\ pc' = "done"
    /\ UNCHANGED <<caller, args, eye_points, ear>>

\* simulate_new_behavior: the left eye is generated with 95% x 92% of the
\* base size, the right eye with 105% x 108%; the percentage difference of
\* the two results is printed (it is reached only when both are values)
SimulateNewBehavior ==
    /\ pc = "simulate_new_behavior"
    /\ \E left_eye_points \in
              {generate_eye_points(FromInt(320), FromInt(240),
                                   FMul(FromInt(20), FDiv(FromInt(95), Hundred)),
                                   FMul(FromInt(10), FDiv(FromInt(92), Hundred)))},
          right_eye_points \in
              {generate_eye_points(FromInt(380), FromInt(240),
                                   FMul(FromInt(20), FDiv(FromInt(105), Hundred)),
                                   FMul(FromInt(10), FDiv(FromInt(108), Hundred)))} :
          \E l \in {calculate_ear(left_eye_points)}, r \in {calculate_ear(right_eye_points)} :
              /\ left_ear' = l
              /\ right_ear' = r
              /\ ear1' = l.val
              /\ ear2' = r.val
              /\ percentage' = IF l.kind = "value" /\ r.kind = "value"
                               THEN calculate_percentage_difference(l.val, r.val)
                               ELSE None
    /\ pc' = "done"
    /\ UNCHANGED <<caller, args, eye_points, ear>>

Next ==
    \/ GenerateEyePoints
    \/ CalculateEar
    \/ CalculatePercentageDifference
    \/ SimulateOldBehavior
    \/ SimulateNewBehavior

Spec == Init /\ [][Next]_vars

\* ------------------------------------------------------------------------
\* Properties
\* ------------------------------------------------------------------------
\* calculate_ear has returned or raised
EarCalled == ear # None

\* calculate_percentage_difference has returned or raised
PercentageCalled == percentage # None

\* eye_points came from generate_eye_points
Generated == args # NoArgs

\* simulate_old_behavior has run
OldDone == caller = "main" /\ pc = "simulate_new_behavior"

\* simulate_new_behavior has run
NewDone == caller = "main" /\ pc = "done"

\* the Euclidean distance of two points, in float arithmetic
EuclideanDistance(p, q) ==
    FSqrt(FAdd(FMul(FSub(p[1], q[1]), FSub(p[1], q[1])),
               FMul(FSub(p[2], q[2]), FSub(p[2], q[2]))))

\* six points whose corners p[0] and p[3] differ
ValidSix(p) == Len(p) = 6 /\ Item(p, 0) # Item(p, 3)

\* x and y differ by at most 32 * 2^-Precision of |x| (a few rounding errors)
RelClose(x, y) ==
    LET lo == IF x.e <= y.e THEN x.e ELSE y.e
    IN  \/ x = y
        \/ /\ x.m # 0
           /\ y.m # 0
           /\ Abs(x.e - y.e) <= 1
           /\ Abs(x.m * 2^(x.e - lo) - y.m * 2^(y.e - lo)) * 2^Precision
                  <= 32 * Abs(x.m * 2^(x.e - lo))

\* n * 2^e is a float for every e: n fits Precision significant bits
Representable(n) ==
    \/ Abs(n) < 2^Precision
    \/ Abs(n) % 2^(BitLen(Abs(n)) - Precision) = 0

\* x + y does not round: the exact sum of x and y is a float
ExactSum(x, y) ==
    LET hi == IF x.e >= y.e THEN x ELSE y
        lo == IF x.e >= y.e THEN y ELSE x
    IN  \/ x.m = 0
        \/ y.m = 0
        \/ /\ hi.e - lo.e <= Precision + 1
           /\ Representable(hi.m * 2^(hi.e - lo.e) + lo.m)

\* k * x does not round: the exact product of k and x is a float
ExactProduct(k, x) == Representable(k.m * x.m)

\* scale factors k > 0
Factors == {FromInt(k) : k \in 1..MaxFactor}

\* every coordinate of every point multiplied by k
Scale(p, k) == [i \in 1..Len(p) |-> <<FMul(k, p[i][1]), FMul(k, p[i][2])>>]

\* multiplying every coordinate of p by k does not round
ExactScale(p, k) ==
    \A i \in 1..Len(p) : ExactProduct(k, p[i][1]) /\ ExactProduct(k, p[i][2])

\* none of the coordinates center_x +- eye_width/2, center_x +- eye_width/4,
\* center_y +- eye_height/2 rounds
ExactCoords(center_x, center_y, eye_width, eye_height) ==
    /\ ExactSum(center_x, FDiv(eye_width, Two))
    /\ ExactSum(center_x, FNeg(FDiv(eye_width, Two)))
    /\ ExactSum(center_x, FDiv(eye_width, Four))
    /\ ExactSum(center_x, FNeg(FDiv(eye_width, Four)))
    /\ ExactSum(center_y, FDiv(eye_height, Two))
    /\ ExactSum(center_y, FNeg(FDiv(eye_height, Two)))

\* C1: for six points with a non-zero corner distance C = distance(p[0], p[3]),
\* calculate_ear returns (A + B) / (2 * C) with A = distance(p[1], p[5]) and
\* B = distance(p[2], p[4]).
C1_EarFormula ==
    (/\ EarCalled
     /\ Len(eye_points) = 6
     /\ EuclideanDistance(Item(eye_points, 0), Item(eye_points, 3)) # Zero)
    => ear = Return(FDiv(FAdd(EuclideanDistance(Item(eye_points, 1), Item(eye_points, 5)),
                              EuclideanDistance(Item(eye_points, 2), Item(eye_points, 4))),
                         FMul(Two, EuclideanDistance(Item(eye_points, 0), Item(eye_points, 3)))))

\* a call on six points where the two vertical pairs have different spans
C1_Witness ==
    /\ EarCalled
    /\ Len(eye_points) = 6
    /\ ear.kind = "value"
    /\ EuclideanDistance(Item(eye_points, 1), Item(eye_points, 5))
           # EuclideanDistance(Item(eye_points, 2), Item(eye_points, 4))
    /\ EuclideanDistance(Item(eye_points, 1), Item(eye_points, 5))
           # EuclideanDistance(Item(eye_points, 1), Item(eye_points, 4))

\* C2: calculate_ear called with a list whose length is not 6 fails with an
\* InvalidInputError and computes no ratio.
C2_WrongLengthRejected ==
    (EarCalled /\ Len(eye_points) # 6) => ear.kind = "InvalidInputError"

C5_NonNegative ==
    (EarCalled /\ ValidSix(eye_points)) => (ear.kind = "value" /\ ear.val.m >= 0)

\* a call on a valid list where the second vertical span exceeds the first
C5_Witness ==
    /\ EarCalled
    /\ ValidSix(eye_points)
    /\ ear.kind = "value"
    /\ FSub(EuclideanDistance(Item(eye_points, 1), Item(eye_points, 5)),
            EuclideanDistance(Item(eye_points, 2), Item(eye_points, 4))).m < 0

\* C6 as stated: for a valid list p and every factor k > 0, calculate_ear of
\* the list with every coordinate multiplied by k equals calculate_ear(p).
C6_ScaleInvariantExactly ==
    (EarCalled /\ ValidSix(eye_points))
    => \A k \in Factors : calculate_ear(Scale(eye_points, k)) = ear

\* C6 as amended: for a valid list p and every factor k > 0 whose products
\* with the coordinates do not round, calculate_ear of the scaled list is a
\* value that equals calculate_ear(p) up to floating-point rounding (a
\* relative difference of at most 32 units in the last place).
C6_ScaleInvariantUpToRounding ==
    (EarCalled /\ ValidSix(eye_points))
    => \A k \in Factors :
           ExactScale(eye_points, k)
           => /\ ear.kind = "value"
              /\ calculate_ear(Scale(eye_points, k)).kind = "value"
              /\ RelClose(ear.val, calculate_ear(Scale(eye_points, k)).val)

\* a valid list and an exact scaling whose result differs in the last places
C6_Witness ==
    /\ EarCalled
    /\ ValidSix(eye_points)
    /\ \E k \in Factors :
           /\ ExactScale(eye_points, k)
           /\ calculate_ear(Scale(eye_points, k)) # ear
           /\ RelClose(ear.val, calculate_ear(Scale(eye_points, k)).val)

\* C7 as stated: for any two centres and the same width and height the EAR
\* of the generated points is the same, and the symmetric scenario (centres
\* (320,240) and (380,240), width 20, height 10) yields two equal values.
C7_PositionIndependent ==
    /\ OldDone => (left_ear.kind = "value" /\ left_ear = right_ear)
    /\ (EarCalled /\ Generated)
       => \A cx \in CenterXs, cy \in CenterYs :
              calculate_ear(generate_eye_points(cx, cy, args.eye_width, args.eye_height)) = ear

\* C7 as amended: for any two centres and the same width and height for
\* which no generated coordinate rounds, the EAR of the generated points is
\* the same, and the symmetric scenario yields two equal values.
C7_PositionIndependentWhenExact ==
    /\ OldDone => (left_ear.kind = "value" /\ left_ear = right_ear)
    /\ (/\ EarCalled
        /\ Generated
        /\ ExactCoords(args.center_x, args.center_y, args.eye_width, args.eye_height))
       => \A cx \in CenterXs, cy \in CenterYs :
              ExactCoords(cx, cy, args.eye_width, args.eye_height)
              => calculate_ear(generate_eye_points(cx, cy, args.eye_width, args.eye_height)) = ear

\* generated points without rounding, and another centre without rounding
C7_Witness ==
    /\ EarCalled
    /\ Generated
    /\ ear.kind = "value"
    /\ ExactCoords(args.center_x, args.center_y, args.eye_width, args.eye_height)
    /\ \E cx \in CenterXs, cy \in CenterYs :
           /\ cx # args.center_x
           /\ cy # args.center_y
           /\ ExactCoords(cx, cy, args.eye_width, args.eye_height)

\* C8: in the asymmetric scenario the EAR of the left eye and the EAR of the
\* right eye differ: the absolute difference is greater than 0.
C8_AsymmetricEyesDiffer ==
    NewDone => /\ left_ear.kind = "value"
               /\ right_ear.kind = "value"
               /\ FAbs(FSub(left_ear.val, right_ear.val)).m > 0

\* the asymmetric scenario has run and printed a percentage
C8_Witness ==
    /\ NewDone
    /\ left_ear.kind = "value"
    /\ right_ear.kind = "value"
    /\ percentage.kind = "value"

\* C9: calculate_percentage_difference(x, x) returns 0 for every x # 0.
C9_SelfDifferenceZero ==
    (PercentageCalled /\ ear1 = ear2 /\ ear1 # Zero) => percentage = Return(Zero)

\* a call with two equal negative values
C9_Witness ==
    /\ PercentageCalled
    /\ ear1 = ear2
    /\ ear1.m < 0
    /\ percentage.kind = "value"

\* C10: the points of generate_eye_points follow the order calculate_ear
\* assumes: p[0] and p[3] are the corners (same y, eye_width apart), and
\* (p[1], p[5]) and (p[2], p[4]) are vertical pairs (same x).
C10_LandmarkOrder ==
    (Generated /\ Len(eye_points) = 6)
    => /\ Item(eye_points, 0)[2] = Item(eye_points, 3)[2]
       /\ FAbs(FSub(Item(eye_points, 3)[1], Item(eye_points, 0)[1])) = args.eye_width
       /\ Item(eye_points, 1)[1] = Item(eye_points, 5)[1]
       /\ Item(eye_points, 2)[1] = Item(eye_points, 4)[1]

=============================================================================
